---- MODULE Spec2Model ----
(***************************************************************************)
(* molndx: reading and writing GROMACS index (.ndx) files, and loading     *)
(* them as selections of the host (Pymol).                                 *)
(*                                                                         *)
(* Text is a sequence of one-character strings.  A Python integer (int or  *)
(* long, of unbounded size) is a record [neg, mag]: its sign and its       *)
(* decimal digits, most significant first, without leading zeros.          *)
(***************************************************************************)
EXTENDS Integers, Sequences, FiniteSets, TLC

\* ------------------------------------------------------------------ text

\* The characters str(int) is made of, by digit value + 1.
Digits == <<"0", "1", "2", "3", "4", "5", "6", "7", "8", "9">>

\* Python's string.whitespace, as far as a TLA+ string can spell it.
Whitespace == {" ", "\t", "\n", "\r", "\f"}

\* Python's None, where a group name (a text) is expected.
None == <<"None">>

\* group_filter=None, where a list of group names is expected.
NoFilter == <<None>>

Min(S) == CHOOSE x \in S : \A y \in S : x <= y

Max(S) == CHOOSE x \in S : \A y \in S : x >= y

\* c in s
Contains(s, c) == \E i \in 1..Len(s) : s[i] = c

\* s.strip() == ''
IsBlank(s) == \A i \in 1..Len(s) : s[i] \in Whitespace

\* s.replace(c, r), c one character
RECURSIVE Replace(_, _, _)
Replace(s, c, r) ==
    IF s = <<>> THEN <<>>
    ELSE (IF Head(s) = c THEN r ELSE <<Head(s)>>) \o Replace(Tail(s), c, r)

\* s.strip()
Strip(s) ==
    LET keep == {i \in 1..Len(s) : s[i] \notin Whitespace}
    IN  IF keep = {} THEN <<>> ELSE SubSeq(s, Min(keep), Max(keep))

\* The end of the run of characters of one kind (whitespace or not) that
\* starts at position i of s.
RECURSIVE RunEnd(_, _)
RunEnd(s, i) ==
    IF i < Len(s) /\ ((s[i + 1] \in Whitespace) <=> (s[i] \in Whitespace))
    THEN RunEnd(s, i + 1)
    ELSE i

\* The maximal runs of whitespace and of non-whitespace of s, from position
\* i on, in order: what textwrap's wordsep_re splits a text of numbers into
\* (its hyphen rules need a letter before the hyphen, or two hyphens).
RECURSIVE ChunksFrom(_, _)
ChunksFrom(s, i) ==
    IF i > Len(s) THEN <<>>
    ELSE LET e == RunEnd(s, i)
         IN  <<SubSeq(s, i, e)>> \o ChunksFrom(s, e + 1)

\* s.split(): the maximal runs of non-whitespace
Split(s) == SelectSeq(ChunksFrom(s, 1), LAMBDA c : ~IsBlank(c))

\* sep.join(parts)
RECURSIVE Join(_, _)
Join(parts, sep) ==
    IF parts = <<>> THEN <<>>
    ELSE IF Len(parts) = 1 THEN parts[1]
    ELSE parts[1] \o sep \o Join(Tail(parts), sep)

\* Iterating over a file: its lines, each with its line end, the last one
\* possibly without.
RECURSIVE FileLines(_)
FileLines(text) ==
    IF text = <<>> THEN <<>>
    ELSE LET ends == {i \in 1..Len(text) : text[i] = "\n"}
             e == IF ends = {} THEN Len(text) ELSE Min(ends)
         IN  <<SubSeq(text, 1, e)>> \o FileLines(SubSeq(text, e + 1, Len(text)))

\* ---------------------------------------------------------------- integers

\* str(x), "%i" % x
Str(x) ==
    (IF x.neg THEN <<"-">> ELSE <<>>) \o [i \in 1..Len(x.mag) |-> Digits[x.mag[i] + 1]]

\* The value of a digit character.
DigitValue(c) == CHOOSE d \in 0..9 : Digits[d + 1] = c

\* Whether int(tok) succeeds on a token of split(): an optional sign, then
\* one or more decimal digits.
IsIntLiteral(tok) ==
    LET body == IF tok # <<>> /\ tok[1] \in {"+", "-"} THEN Tail(tok) ELSE tok
    IN  /\ body # <<>>
        /\ \A i \in 1..Len(body) : \E d \in 0..9 : Digits[d + 1] = body[i]

\* int(tok), for a token int() accepts: leading zeros go, and -0 is 0.
ParseInt(tok) ==
    LET body == IF tok[1] \in {"+", "-"} THEN Tail(tok) ELSE tok
        nz == {i \in 1..Len(body) : body[i] # "0"}
        mag == IF nz = {} THEN <<0>>
               ELSE [i \in 1..(Len(body) - Min(nz) + 1) |->
                        DigitValue(body[Min(nz) + i - 1])]
    IN  [neg |-> tok[1] = "-" /\ nz # {}, mag |-> mag]

\* ------------------------------------------------------------ textwrap.wrap

\* width=60 of the call of wrap
LineWidth == 60

\* The number of leading chunks that fit a line of the given width, after
\* the first k, which take cur_len characters: the inner while loop of
\* TextWrapper._wrap_chunks.
RECURSIVE Fit(_, _, _, _)
Fit(chunks, k, cur_len, width) ==
    IF k < Len(chunks) /\ cur_len + Len(chunks[k + 1]) <= width
    THEN Fit(chunks, k + 1, cur_len + Len(chunks[k + 1]), width)
    ELSE [k |-> k, cur_len |-> cur_len]

\* TextWrapper._wrap_chunks with the defaults wrap() leaves in place:
\* drop_whitespace and break_long_words are on, the indents are empty.
\* One turn of the outer loop makes one line.
RECURSIVE WrapChunks(_, _, _)
WrapChunks(chunks, lines, width) ==
    IF chunks = <<>> THEN lines
    ELSE LET \* a line after the first does not start with whitespace
             todo == IF IsBlank(chunks[1]) /\ lines # <<>> THEN Tail(chunks) ELSE chunks
             fit == Fit(todo, 0, 0, width)
             fitted == SubSeq(todo, 1, fit.k)
             rest == SubSeq(todo, fit.k + 1, Len(todo))
             \* _handle_long_word: a chunk no line can hold is cut to fill
             \* what is left of this line
             long == rest # <<>> /\ Len(rest[1]) > width
             space_left == width - fit.cur_len
             cur_line == IF long THEN Append(fitted, SubSeq(rest[1], 1, space_left))
                         ELSE fitted
             rest2 == IF long
                      THEN <<SubSeq(rest[1], space_left + 1, Len(rest[1]))>> \o Tail(rest)
                      ELSE rest
             \* the line does not end with whitespace
             kept == IF cur_line # <<>> /\ IsBlank(cur_line[Len(cur_line)])
                     THEN SubSeq(cur_line, 1, Len(cur_line) - 1)
                     ELSE cur_line
         IN  WrapChunks(rest2,
                        IF kept # <<>> THEN Append(lines, Join(kept, <<>>)) ELSE lines,
                        width)

\* wrap(text, width): the lines of text, none longer than width.  (The
\* whitespace wrap() first turns into spaces is spaces already: the text is
\* numbers joined by single spaces.)
Wrap(text, width) == WrapChunks(ChunksFrom(text, 1), <<>>, width)

\* -------------------------------------------------------------------- state

VARIABLES
    pc,             \* where the program is
    file,           \* the text of the index file
    wgroups,        \* write_ndx: groups, the dictionary to write
    given_filter,   \* write_ndx: group_filter as the caller gave it
    group_filter,   \* write_ndx: group_filter, then what is left of it
    infile,         \* read_ndx: the lines of infile not read yet
    indices,        \* read_ndx: indices
    current_group,  \* read_ndx: current_group
    groups,         \* read_ndx: groups
    result,         \* what read_ndx returned: <<>>, or <<[indices, groups]>>
    entry,          \* ndx_load: the position in names of the for loop
    i,              \* ndx_load: i of the xrange, 0 before the first select
    calls           \* the calls of cmd.select so far

vars == <<pc, file, wgroups, given_filter, group_filter, infile, indices, current_group,
          groups, result, entry, i, calls>>

\* The empty dictionary.
EmptyDict == [n \in {} |-> <<>>]

\* ----------------------------------------------------------------- write_ndx

\* "[ %s ]" % group
HeaderLine(group) == <<"[", " ">> \o group \o <<" ", "]">>

\* " ".join(str(x) for x in groups[group])
JoinIndices(content) == Join([k \in 1..Len(content) |-> Str(content[k])], <<" ">>)

\* print >> outfile, text
PrintLine(outfile, text) == outfile \o text \o <<"\n">>

\* A slip: the lines of the indices are printed one by one, so that a group
\* without indices gets its header and nothing else.
PrintGroupLines(outfile, group, content) ==
    LET lines == Wrap(JoinIndices(content), LineWidth)
        header == PrintLine(outfile, HeaderLine(group))
    IN  IF lines = <<>> THEN header ELSE PrintLine(header, Join(lines, <<"\n">>))

\* The body of the for loop of write_ndx: the two print statements.
PrintGroup(outfile, group, content) ==
    PrintLine(PrintLine(outfile, HeaderLine(group)),
              Join(Wrap(JoinIndices(content), LineWidth), <<"\n">>))

\* The orders groups.keys() may come in.
KeyOrders(d) ==
    {o \in [1..Cardinality(DOMAIN d) -> DOMAIN d] :
        \A j, k \in 1..Cardinality(DOMAIN d) : j # k => o[j] # o[k]}

\* (group for group in group_filter if group in groups)
InGroups(flt, d) == SelectSeq(flt, LAMBDA group : group \in DOMAIN d)

\* write_ndx, choosing the groups to write: every key in some order, or the
\* entries of the filter that are keys.
WriteFilter ==
    /\ pc = "write_ndx"
    /\ IF group_filter = NoFilter
       THEN group_filter' \in KeyOrders(wgroups)
       ELSE group_filter' = InGroups(group_filter, wgroups)
    /\ pc' = "write_loop"
    /\ UNCHANGED <<file, wgroups, given_filter, infile, indices, current_group, groups,
                   result, entry, i, calls>>

\* write_ndx, one turn of the for loop.
WriteGroup ==
    /\ pc = "write_loop"
    /\ group_filter # <<>>
    /\ file' = PrintGroup(file, Head(group_filter), wgroups[Head(group_filter)])
    /\ group_filter' = Tail(group_filter)
    /\ UNCHANGED <<pc, wgroups, given_filter, infile, indices, current_group, groups,
                   result, entry, i, calls>>

\* write_ndx returns; the file is read back next.
WriteReturn ==
    /\ pc = "write_loop"
    /\ group_filter = <<>>
    /\ pc' = "read_ndx"
    /\ UNCHANGED <<file, wgroups, given_filter, group_filter, infile, indices, current_group,
                   groups, result, entry, i, calls>>

\* ------------------------------------------------------------------ read_ndx

\* A slip: line[line.index("[") + 1:line.index("]")].strip(), the text
\* inside the first pair of brackets.
HeaderNameInside(line) ==
    LET open == Min({k \in 1..Len(line) : line[k] = "["})
        shut == {k \in (open + 1)..Len(line) : line[k] = "]"}
    IN  Strip(SubSeq(line, open + 1, IF shut = {} THEN Len(line) ELSE Min(shut) - 1))

\* The group name of a header line: the line without its brackets, stripped.
HeaderName(line) == Strip(Replace(Replace(line, "[", <<>>), "]", <<>>))

\* A slip: indices.setdefault(current_group, []), which keeps the list of a
\* group that is opened again.
OpenGroupKept(d, group) ==
    [n \in DOMAIN d \cup {group} |-> IF n \in DOMAIN d THEN d[n] ELSE <<>>]

\* A slip: indices = {current_group: []}, which forgets the other groups.
OpenGroupAlone(d, group) == [n \in {group} |-> <<>>]

\* indices[current_group] = []
OpenGroup(d, group) ==
    [n \in DOMAIN d \cup {group} |-> IF n = group THEN <<>> ELSE d[n]]

\* not current_group is None
HasGroup(group) == group # None

\* [int(i) for i in line.split()], when every int() succeeds
ParseInts(line) ==
    LET tokens == Split(line)
    IN  [k \in 1..Len(tokens) |-> ParseInt(tokens[k])]

\* Whether some int(i) of the line raises ValueError.
RaisesValueError(line) ==
    LET tokens == Split(line)
    IN  \E k \in 1..Len(tokens) : ~IsIntLiteral(tokens[k])

\* indices[current_group] += [...]
ExtendGroup(d, group, ints) == [d EXCEPT ![group] = @ \o ints]

\* read_ndx starts on the opened file.
ReadOpen ==
    /\ pc = "read_ndx"
    /\ infile' = FileLines(file)
    /\ indices' = EmptyDict
    /\ current_group' = None
    /\ groups' = <<>>
    /\ pc' = "read_loop"
    /\ UNCHANGED <<file, wgroups, given_filter, group_filter, result, entry, i, calls>>

\* A line with a "[": a new group starts.
ReadHeader ==
    /\ pc = "read_loop"
    /\ infile # <<>>
    /\ Contains(Head(infile), "[")
    /\ current_group' = HeaderName(Head(infile))
    /\ groups' = Append(groups, current_group')
    /\ indices' = OpenGroup(indices, current_group')
    /\ infile' = Tail(infile)
    /\ UNCHANGED <<pc, file, wgroups, given_filter, group_filter, result, entry, i, calls>>

\* A line of a group: its numbers go to the group.
ReadData ==
    /\ pc = "read_loop"
    /\ infile # <<>>
    /\ ~Contains(Head(infile), "[")
    /\ HasGroup(current_group)
    /\ ~RaisesValueError(Head(infile))
    /\ indices' = ExtendGroup(indices, current_group, ParseInts(Head(infile)))
    /\ infile' = Tail(infile)
    /\ UNCHANGED <<pc, file, wgroups, given_filter, group_filter, current_group, groups,
                   result, entry, i, calls>>

\* A slip: the ValueError is caught and the line is left out.
ReadRaiseCaught ==
    /\ pc = "read_loop"
    /\ infile # <<>>
    /\ ~Contains(Head(infile), "[")
    /\ HasGroup(current_group)
    /\ RaisesValueError(Head(infile))
    /\ infile' = Tail(infile)
    /\ UNCHANGED <<pc, file, wgroups, given_filter, group_filter, indices,
                   current_group, groups, result, entry, i, calls>>

\* A line of a group with a token int() refuses: read_ndx ends with the
\* ValueError and returns nothing.
ReadRaise ==
    /\ pc = "read_loop"
    /\ infile # <<>>
    /\ ~Contains(Head(infile), "[")
    /\ HasGroup(current_group)
    /\ RaisesValueError(Head(infile))
    /\ pc' = "ValueError"
    /\ UNCHANGED <<file, wgroups, given_filter, group_filter, infile, indices, current_group,
                   groups, result, entry, i, calls>>

\* A line before the first header: neither branch is taken.
ReadIgnore ==
    /\ pc = "read_loop"
    /\ infile # <<>>
    /\ ~Contains(Head(infile), "[")
    /\ ~HasGroup(current_group)
    /\ infile' = Tail(infile)
    /\ UNCHANGED <<pc, file, wgroups, given_filter, group_filter, indices, current_group,
                   groups, result, entry, i, calls>>

\* return indices, groups
ReadReturn ==
    /\ pc = "read_loop"
    /\ infile = <<>>
    /\ result' = <<[indices |-> indices, groups |-> groups]>>
    /\ entry' = 1
    /\ i' = 0
    /\ pc' = "ndx_load"
    /\ UNCHANGED <<file, wgroups, given_filter, group_filter, infile, indices, current_group,
                   groups, calls>>

\* ------------------------------------------------------------------ ndx_load

\* The step of the xrange: the most indices one extension selects.
ChunkSize == 10

\* ndx and names, as read_ndx returned them.
ndx == result[1].indices

names == result[1].groups

\* name.replace("&", "_and_").replace("|", "_or_")
SelectionName(name) ==
    Replace(Replace(name, "&", <<"_", "a", "n", "d", "_">>), "|", <<"_", "o", "r", "_">>)

\* "index %i" % content[0]
FirstSelection(content) == <<"i", "n", "d", "e", "x", " ">> \o Str(content[1])

\* A slip: content[i-1:i+9], which takes the index before the chunk again.
SubcontentEarly(content, from) ==
    SubSeq(content, from, Min({from + ChunkSize - 1, Len(content)}))

\* content[i:i+10]
Subcontent(content, from) ==
    SubSeq(content, from + 1, Min({from + ChunkSize, Len(content)}))

\* "%s | %s" % (name, "index " + "+".join(str(i) for i in subcontent))
ExtendedSelection(name, subcontent) ==
    name \o <<" ", "|", " ">> \o <<"i", "n", "d", "e", "x", " ">>
         \o Join([k \in 1..Len(subcontent) |-> Str(subcontent[k])], <<"+">>)

\* cmd.select(name, selection), made for the entry of names the loop is at
Select(name, selection) ==
    Append(calls, [entry |-> entry, name |-> name, selection |-> selection])

\* The for loops go on: to the chunk at next_i if there is one, else to the
\* next entry of names.
LoopOn(next_i, content) ==
    IF next_i < Len(content)
    THEN i' = next_i /\ entry' = entry
    ELSE i' = 0 /\ entry' = entry + 1

\* A group with indices: the selection is made of the first one.
LoadSelect ==
    /\ pc = "ndx_load"
    /\ entry <= Len(names)
    /\ i = 0
    /\ Len(ndx[names[entry]]) > 0
    /\ calls' = Select(SelectionName(names[entry]), FirstSelection(ndx[names[entry]]))
    /\ LoopOn(1, ndx[names[entry]])
    /\ UNCHANGED <<pc, file, wgroups, given_filter, group_filter, infile, indices,
                   current_group, groups, result>>

\* The selection is extended by the next (at most) 10 indices.
LoadExtend ==
    /\ pc = "ndx_load"
    /\ entry <= Len(names)
    /\ i > 0
    /\ calls' = Select(SelectionName(names[entry]),
                       ExtendedSelection(SelectionName(names[entry]),
                                         Subcontent(ndx[names[entry]], i)))
    /\ LoopOn(i + ChunkSize, ndx[names[entry]])
    /\ UNCHANGED <<pc, file, wgroups, given_filter, group_filter, infile, indices,
                   current_group, groups, result>>

\* A group without indices: nothing is selected.
LoadEmpty ==
    /\ pc = "ndx_load"
    /\ entry <= Len(names)
    /\ i = 0
    /\ Len(ndx[names[entry]]) = 0
    /\ entry' = entry + 1
    /\ UNCHANGED <<pc, file, wgroups, given_filter, group_filter, infile, indices,
                   current_group, groups, result, i, calls>>

\* cmd.select("none"), and ndx_load is done.
LoadDone ==
    /\ pc = "ndx_load"
    /\ entry > Len(names)
    /\ calls' = Select(<<"n", "o", "n", "e">>, <<>>)
    /\ pc' = "done"
    /\ UNCHANGED <<file, wgroups, given_filter, group_filter, infile, indices, current_group,
                   groups, result, entry, i>>

\* ------------------------------------------------------------------- inputs

\* The longest list of indices of a written group.
MaxCount == 32

\* The most lines of a file that is read without being written first.
MaxLines == 4

\* The decimal digits of a natural number.
RECURSIVE DigitsOf(_)
DigitsOf(n) == IF n < 10 THEN <<n>> ELSE Append(DigitsOf(n \div 10), n % 10)

\* The Python integer of a (small) integer.
PyInt(n) == [neg |-> n < 0, mag |-> DigitsOf(IF n < 0 THEN -n ELSE n)]

\* An integer whose digits do not fit one line of the file.
Huge == [neg |-> FALSE, mag |-> [k \in 1..(LineWidth + 1) |-> 9]]

\* Group names: two of written dictionaries, and one no dictionary has.
GroupA == <<"A">>

GroupB == <<"B", "&", "C", "|", "D">>

GroupX == <<"X">>

\* The spread of the lengths of the long lists of indices.
Spread == 12

\* The lists of indices of group A: 1..n for a few small n and for every n
\* up to the longest, and n sevens, which wrap at other places; signs and
\* zero; a number longer than a line.
ListsA ==
    {[k \in 1..n |-> PyInt(k)] : n \in {0, 1, 2, 11, 12} \cup (MaxCount - Spread)..MaxCount}
        \cup {[k \in 1..n |-> PyInt(7)] : n \in (MaxCount - 2)..MaxCount}
        \cup {<<PyInt(-12), PyInt(0), PyInt(305)>>, <<PyInt(3), Huge, PyInt(4)>>}

\* The lists of indices of group B.
ListsB == {<<>>, <<PyInt(4), PyInt(5)>>}

\* The dictionaries write_ndx is given: a is <<>> or <<the list of A>>, b of B.
Dict(a, b) ==
    [n \in {g \in {GroupA} : a # <<>>} \cup {g \in {GroupB} : b # <<>>} |->
        IF n = GroupA THEN a[1] ELSE b[1]]

Dicts ==
    {Dict(a, b) : a \in {<<>>} \cup {<<l>> : l \in ListsA},
                  b \in {<<>>} \cup {<<l>> : l \in ListsB}}

\* The group filters write_ndx is given: none, the names in every order and
\* choice without a name twice, and a name twice.
Filters ==
    {NoFilter, <<GroupA, GroupA>>}
        \cup UNION {{f \in [1..n -> {GroupA, GroupB, GroupX}] :
                        \A j, k \in 1..n : j # k => f[j] # f[k]} : n \in 0..3}

\* The lines of the files that are read: headers (plain, without spaces
\* inside the brackets, with text around and more brackets), lines of
\* numbers (plain, signed and padded), comments, a word.
LinePool ==
    {<<"[", " ", "A", " ", "]", "\n">>,
     <<"[", "B", "]", "\n">>,
     <<"x", " ", "[", " ", "A", " ", "]", " ", "[", " ", "B", "\n">>,
     <<"1", " ", "2", " ", "3", "\n">>,
     <<" ", "+", "4", " ", "-", "0", "5", "\t", "\n">>,
     <<";", " ", "c", "\n">>,
     <<"6", " ", ";", " ", "c", "\n">>}

Files == UNION {[1..n -> LinePool] : n \in 0..MaxLines}

\* Either a dictionary is written under a filter to a new file, which is
\* then loaded, or a given file is loaded.
Init ==
    /\ \/ /\ pc = "write_ndx"
          /\ file = <<>>
          /\ wgroups \in Dicts
          /\ given_filter \in Filters
       \/ /\ pc = "read_ndx"
          /\ \E f \in Files : file = Join(f, <<>>)
          /\ wgroups = EmptyDict
          /\ given_filter = NoFilter
    /\ group_filter = given_filter
    /\ infile = <<>>
    /\ indices = EmptyDict
    /\ current_group = None
    /\ groups = <<>>
    /\ result = <<>>
    /\ entry = 0
    /\ i = 0
    /\ calls = <<>>

Next ==
    \/ WriteFilter
    \/ WriteGroup
    \/ WriteReturn
    \/ ReadOpen
    \/ ReadHeader
    \/ ReadData
    \/ ReadRaise
    \/ ReadIgnore
    \/ ReadReturn
    \/ LoadSelect
    \/ LoadExtend
    \/ LoadEmpty
    \/ LoadDone

Spec == Init /\ [][Next]_vars

\* ------------------------------------------------------------------- claims

\* The lines of the file, and those of them read_ndx has been through.
AllLines == FileLines(file)

Processed == SubSeq(AllLines, 1, Len(AllLines) - Len(infile))

\* read_ndx has just returned.
Returned == pc = "ndx_load" /\ entry = 1 /\ i = 0 /\ calls = <<>>

\* The positions of the lines with a "[" among lines.
HeaderPositions(lines) == {k \in 1..Len(lines) : Contains(lines[k], "[")}

\* The position of the j-th line with a "[".
HeaderPosition(lines, j) ==
    CHOOSE h \in HeaderPositions(lines) :
        Cardinality({x \in HeaderPositions(lines) : x <= h}) = j

\* C9: after any prefix of the lines, the names of the group order are
\* exactly the keys of the index table; a header directly followed by the
\* next header or by the end of what was read, whose name is not opened
\* again, has the empty list; without a header both are empty.
C9_ParserInvariant ==
    pc = "read_loop" =>
        LET done == Processed
        IN  /\ {groups[k] : k \in 1..Len(groups)} = DOMAIN indices
            /\ Len(groups) = Cardinality(HeaderPositions(done))
            /\ HeaderPositions(done) = {} => groups = <<>> /\ indices = EmptyDict
            /\ \A j \in 1..Len(groups) :
                 LET h == HeaderPosition(done, j)
                 IN  (/\ h = Len(done) \/ Contains(done[h + 1], "[")
                      /\ \A k \in (j + 1)..Len(groups) : groups[k] # groups[j])
                     => groups[j] \in DOMAIN indices /\ indices[groups[j]] = <<>>

\* C9, its case: at the end of the input, a first group that has no line
\* of its own before the header of another group, which has numbers.
C9_Witness ==
    /\ pc = "read_loop"
    /\ infile = <<>>
    /\ Len(groups) = 2
    /\ groups[1] # groups[2]
    /\ Contains(Processed[2], "[")
    /\ indices[groups[1]] = <<>>
    /\ indices[groups[2]] # <<>>

\* Line k of lines follows a header, has no "[" and has a token that is
\* no base-10 integer.
Malformed(lines, k) ==
    /\ \E j \in 1..(k - 1) : Contains(lines[j], "[")
    /\ ~Contains(lines[k], "[")
    /\ \E n \in 1..Len(Split(lines[k])) : ~IsIntLiteral(Split(lines[k])[n])

CallsOf(e) == SelectSeq(calls, LAMBDA c : c.entry = e)

\* The parts of s between the occurrences of the character c.
RECURSIVE SplitOn(_, _)
SplitOn(s, c) ==
    LET at == {k \in 1..Len(s) : s[k] = c}
    IN  IF at = {} THEN <<s>>
        ELSE <<SubSeq(s, 1, Min(at) - 1)>> \o SplitOn(SubSeq(s, Min(at) + 1, Len(s)), c)

\* The indices a selection hands to the host: the numbers joined by "+"
\* after its last space.
SelectedIndices(selection) ==
    LET spaces == {k \in 1..Len(selection) : selection[k] = " "}
        parts == SplitOn(SubSeq(selection, Max(spaces) + 1, Len(selection)), "+")
    IN  [k \in 1..Len(parts) |-> ParseInt(parts[k])]

\* The selection up to and with its last space.
SelectionHead(selection) ==
    SubSeq(selection, 1, Max({k \in 1..Len(selection) : selection[k] = " "}))

\* The indices of a sequence of calls, in order.
RECURSIVE AllSelected(_)
AllSelected(cs) ==
    IF cs = <<>> THEN <<>> ELSE SelectedIndices(cs[1].selection) \o AllSelected(Tail(cs))

\* The group name with "&" replaced by "_and_" and "|" by "_or_".
Sanitized(name) ==
    LET sub(c) == IF c = "&" THEN <<"_", "a", "n", "d", "_">>
                  ELSE IF c = "|" THEN <<"_", "o", "r", "_">> ELSE <<c>>
    IN  Join([k \in 1..Len(name) |-> sub(name[k])], <<>>)

\* C10: when ndx_load is done, the calls made for an entry of the group
\* order with indices hand every position of its list to the host once, in
\* order: the first call the first index alone, each further call at most
\* 10 indices on top of the selection so far, all under the sanitized
\* name; for an entry without indices no call is made.
C10_ChunkedSelection ==
    pc = "done" =>
        \A e \in 1..Len(names) :
            LET content == ndx[names[e]]
                cs == CallsOf(e)
                name == Sanitized(names[e])
            IN  IF content = <<>> THEN cs = <<>>
                ELSE /\ cs # <<>>
                     /\ \A k \in 1..Len(cs) : cs[k].name = name
                     /\ cs[1].selection = <<"i", "n", "d", "e", "x", " ">> \o Str(content[1])
                     /\ \A k \in 2..Len(cs) :
                          /\ SelectionHead(cs[k].selection) = name \o <<" ", "|", " ", "i", "n", "d", "e", "x", " ">>
                          /\ Len(SelectedIndices(cs[k].selection)) \in 1..10
                     /\ AllSelected(cs) = content

\* C10, its case: ndx_load is done with a group of more than two full
\* chunks and a group with indices whose name had to be sanitized.
C10_Witness ==
    /\ pc = "done"
    /\ \E e \in 1..Len(names) : Len(ndx[names[e]]) > 2 * ChunkSize + 1
    /\ \E e \in 1..Len(names) :
         /\ Contains(names[e], "&")
         /\ Contains(names[e], "|")
         /\ ndx[names[e]] # <<>>
         /\ CallsOf(e) # <<>>

\* The lines of the block of the j-th header of lines: those after it, up
\* to the next header or the end.
BlockLines(lines, j) ==
    SubSeq(lines, HeaderPosition(lines, j) + 1,
           IF j < Cardinality(HeaderPositions(lines))
           THEN HeaderPosition(lines, j + 1) - 1
           ELSE Len(lines))

\* The integers of lines of numbers, in order.
RECURSIVE IntegersOf(_)
IntegersOf(lines) ==
    IF lines = <<>> THEN <<>> ELSE ParseInts(lines[1]) \o IntegersOf(Tail(lines))

\* The integers of all the blocks of lines, from the j-th on, whose header
\* has the name, in file order.
RECURSIVE BlocksOf(_, _, _)
BlocksOf(lines, name, j) ==
    IF j > Len(groups) THEN <<>>
    ELSE (IF groups[j] = name THEN IntegersOf(BlockLines(lines, j)) ELSE <<>>)
             \o BlocksOf(lines, name, j + 1)

\* The last entry of the group order with the name.
LastOpening(name) == Max({j \in 1..Len(groups) : groups[j] = name})

\* C2, as claimed: a header whose name has an entry already leaves its list
\* alone, so that after any prefix of the lines the list of a name is the
\* integers of all the blocks under that name, in file order.
C2_ReopenedGroupAccumulates ==
    pc = "read_loop" =>
        /\ Len(groups) = Cardinality(HeaderPositions(Processed))
        /\ \A n \in DOMAIN indices : indices[n] = BlocksOf(Processed, n, 1)

\* C2, amended: a header whose name has an entry already empties its list,
\* so that after any prefix of the lines the list of a name is the integers
\* of the last block under that name alone; the group order has one entry
\* per header, a name that is opened again included.
C2_ReopenedGroupRestarts ==
    pc = "read_loop" =>
        /\ Len(groups) = Cardinality(HeaderPositions(Processed))
        /\ \A n \in DOMAIN indices :
             indices[n] = IntegersOf(BlockLines(Processed, LastOpening(n)))

\* C2, its case: the end of a file with headers A, B, A whose first block
\* has numbers.
C2_Witness ==
    /\ pc = "read_loop"
    /\ infile = <<>>
    /\ Len(groups) = 3
    /\ groups[1] = groups[3]
    /\ groups[1] # groups[2]
    /\ IntegersOf(BlockLines(Processed, 1)) # <<>>

\* The text between the first "[" of a line and the "]" that closes it (or
\* the end of the line), without the whitespace around it.
InsideBrackets(line) ==
    LET open == Min({k \in 1..Len(line) : line[k] = "["})
        shut == {k \in (open + 1)..Len(line) : line[k] = "]"}
    IN  Strip(SubSeq(line, open + 1, IF shut = {} THEN Len(line) ELSE Min(shut) - 1))

\* The line without any of its brackets and without the whitespace around
\* what is left.
WithoutBrackets(line) == Strip(SelectSeq(line, LAMBDA c : c \notin {"[", "]"}))

\* The last line read_ndx has been through is a line with a "[".
HeaderRead == pc = "read_loop" /\ Processed # <<>> /\ Contains(Processed[Len(Processed)], "[")

\* C8, as claimed: every line with a "[" is a header, and the name it
\* records is the text inside its first pair of brackets.
C8_NameInsideBrackets ==
    HeaderRead =>
        /\ Len(groups) = Cardinality(HeaderPositions(Processed))
        /\ current_group = InsideBrackets(Processed[Len(Processed)])
        /\ groups[Len(groups)] = current_group
        /\ current_group \in DOMAIN indices

\* C8, amended: every line with a "[" is a header, and the name it records
\* is the whole line with every "[" and "]" taken out and the whitespace
\* around the rest trimmed, text before, after and between brackets included.
C8_NameWithoutBrackets ==
    HeaderRead =>
        /\ Len(groups) = Cardinality(HeaderPositions(Processed))
        /\ current_group = WithoutBrackets(Processed[Len(Processed)])
        /\ groups[Len(groups)] = current_group
        /\ current_group \in DOMAIN indices

\* C8, its case: a header with text before its first bracket and a second
\* opening bracket has been read.
C8_Witness ==
    /\ HeaderRead
    /\ Processed[Len(Processed)] = <<"x", " ", "[", " ", "A", " ", "]", " ", "[", " ", "B", "\n">>
    /\ current_group = <<"x", " ", " ", "A", " ", " ", " ", "B">>

\* The header line write_ndx prints for a group, as a line of the file.
WrittenHeader(group) == <<"[", " ">> \o group \o <<" ", "]", "\n">>

\* The positions in the lines of the file of the headers of the groups
\* without indices.
EmptyGroupHeaders ==
    {k \in 1..Len(AllLines) :
        \E g \in DOMAIN wgroups : wgroups[g] = <<>> /\ AllLines[k] = WrittenHeader(g)}

\* C6, as claimed: the header of a group without indices is followed by
\* nothing at all: the next line is the next header, or there is none.
C6_EmptyGroupNoBodyLine ==
    pc = "write_loop" =>
        \A k \in EmptyGroupHeaders :
            k = Len(AllLines) \/ Contains(AllLines[k + 1], "[")

\* C6, amended: the header of a group without indices is followed by one
\* empty line (the second print statement prints the empty string), and
\* then by the next header or the end of the output.
C6_EmptyGroupBlankLine ==
    pc = "write_loop" =>
        \A k \in EmptyGroupHeaders :
            /\ k < Len(AllLines)
            /\ AllLines[k + 1] = <<"\n">>
            /\ k + 1 = Len(AllLines) \/ Contains(AllLines[k + 2], "[")

\* C6, its case: write_ndx is through, a group without indices was written
\* and another group after it.
C6_Witness ==
    /\ pc = "write_loop"
    /\ group_filter = <<>>
    /\ \E k \in EmptyGroupHeaders : k + 2 <= Len(AllLines)

\* What read_ndx returns for lines, from a table, a current group and a
\* group order: <<>> if it raises.
RECURSIVE ReadFrom(_, _, _, _)
ReadFrom(lines, table, current, order) ==
    IF lines = <<>> THEN <<[indices |-> table, groups |-> order]>>
    ELSE IF Contains(lines[1], "[")
    THEN ReadFrom(Tail(lines), OpenGroup(table, HeaderName(lines[1])),
                  HeaderName(lines[1]), Append(order, HeaderName(lines[1])))
    ELSE IF current = None THEN ReadFrom(Tail(lines), table, current, order)
    ELSE IF RaisesValueError(lines[1]) THEN <<>>
    ELSE ReadFrom(Tail(lines), ExtendGroup(table, current, ParseInts(lines[1])),
                  current, order)

\* A line without its comment: what is before its first ";", and its end.
Uncommented(line) ==
    LET at == {k \in 1..Len(line) : line[k] = ";"}
    IN  IF at = {} THEN line ELSE SubSeq(line, 1, Min(at) - 1) \o <<"\n">>

\* C4: read_ndx of a file with comments (whole lines, or the ends of lines
\* of numbers) raises no error and returns the index table and the group
\* order of the same file without the comments.
C4_CommentsTransparent ==
    (pc = "ValueError" \/ Returned) /\ Contains(file, ";") =>
        /\ pc # "ValueError"
        /\ result = ReadFrom([k \in 1..Len(AllLines) |-> Uncommented(AllLines[k])],
                             EmptyDict, None, <<>>)

\* Every integer of the written dictionary fits a line of the file.
IntegersFit ==
    \A g \in DOMAIN wgroups :
        \A k \in 1..Len(wgroups[g]) : Len(Str(wgroups[g][k])) <= LineWidth

\* A line without its line end.
Chomp(line) ==
    IF line # <<>> /\ line[Len(line)] = "\n" THEN SubSeq(line, 1, Len(line) - 1) ELSE line

\* The tokens of lines, in order.
RECURSIVE TokensOf(_)
TokensOf(lines) ==
    IF lines = <<>> THEN <<>> ELSE Split(lines[1]) \o TokensOf(Tail(lines))

\* The body of the j-th group of the file is as C5 has it: no line longer
\* than 60 characters, line breaks only in the place of a space of the
\* joined indices, and the tokens the integers of the group, in order.
WrappedBody(j) ==
    LET body == BlockLines(AllLines, j)
        content == CHOOSE c \in {wgroups[g] : g \in DOMAIN wgroups} :
                       \E g \in DOMAIN wgroups :
                           /\ wgroups[g] = c
                           /\ AllLines[HeaderPosition(AllLines, j)] = WrittenHeader(g)
    IN  /\ \A k \in 1..Len(body) : Len(Chomp(body[k])) <= 60
        /\ Join([k \in 1..Len(body) |-> Chomp(body[k])], <<" ">>) = JoinIndices(content)
        /\ TokensOf(body) = [k \in 1..Len(content) |-> Str(content[k])]

\* C5: every group write_ndx has written has a body wrapped as above.
C5_LineWrapping ==
    pc = "write_loop" =>
        \A j \in 1..Cardinality(HeaderPositions(AllLines)) : WrappedBody(j)

\* C5 holds of the dictionaries whose integers fit a line: only an integer
\* of more than 60 characters is cut.
C5_LineWrappingWhenIntegersFit == IntegersFit => C5_LineWrapping

\* The entries of the given filter that are keys of the dictionary.
Present == SelectSeq(given_filter, LAMBDA g : g \in DOMAIN wgroups)

\* The lines of the file with a "[", in order.
HeadersOf(lines) == SelectSeq(lines, LAMBDA line : Contains(line, "["))

\* C3: with a group filter, the headers written are the entries of the
\* filter that are keys of the dictionary, in the order of the filter, and
\* nothing is written or raised for the other entries: read back, the file
\* gives the dictionary restricted to the filter, and the filter without
\* the absent names as the group order.
C3_FilteredWrite ==
    given_filter # NoFilter =>
        /\ pc # "ValueError"
        /\ (pc = "write_loop" /\ group_filter = <<>>) =>
             HeadersOf(AllLines) = [k \in 1..Len(Present) |-> WrittenHeader(Present[k])]
        /\ Returned =>
             /\ result[1].groups = Present
             /\ result[1].indices =
                    [g \in {Present[k] : k \in 1..Len(Present)} |-> wgroups[g]]

\* C3 holds of the dictionaries whose integers fit a line.
C3_FilteredWriteWhenIntegersFit == IntegersFit => C3_FilteredWrite

\* The given filter names every key of the dictionary once, and nothing else.
FilterIsPermutation ==
    /\ given_filter # NoFilter
    /\ Len(given_filter) = Cardinality(DOMAIN wgroups)
    /\ {given_filter[k] : k \in 1..Len(given_filter)} = DOMAIN wgroups

\* C1: a dictionary written under a filter that is a permutation of its
\* keys is read back as it was, with the filter as the group order.
C1_RoundTrip ==
    FilterIsPermutation =>
        /\ pc # "ValueError"
        /\ Returned =>
             /\ result[1].indices = wgroups
             /\ result[1].groups = given_filter

\* C1 holds of the dictionaries whose integers fit a line.
C1_RoundTripWhenIntegersFit == IntegersFit => C1_RoundTrip

====
